---- MODULE Spec2Model ----
(***************************************************************************)
(* Model of the release-notes watcher (src/main.py): a Flask handler that  *)
(* fetches a page, hashes its text, compares the hash with the one kept in *)
(* a Cloud Storage object, and on a change asks Gemini for a summary,      *)
(* posts it to a chat webhook and overwrites the stored hash.              *)
(*                                                                         *)
(* The handler is not atomic: every call to an external service (page      *)
(* fetch, blob download, model call, webhook POST, blob upload) is a point *)
(* where another invocation of the handler may run.  Each action below is  *)
(* the stretch of process_release_notes from one such call up to the next. *)
(***************************************************************************)
EXTENDS Naturals, Sequences, FiniteSets

\* Total number of requests served in one behaviour.
MaxInvocations == 3

\* The handler invocations that may be in flight at the same time.
Invocations == {1, 2}

\* Python's None, and the value of a local that has not been assigned yet.
None == "None"
Unset == "unset"

\* Values of the environment variables read at import time.
ApiKeys == {None, "", "key"}
WebhookUrls == {None, "", "https://chat.example/hook"}

\* Python truthiness of an optional string (if API_KEY / if not CHAT_WEBHOOK_URL).
Truthy(s) == s # None /\ s # ""

\* Documents the page may serve, by what soup.find('main') and
\* soup.find('body') yield: the element's text, or None when html.parser
\* finds no such element.
Documents ==
    { [main |-> "notes v1", body |-> "nav notes v1"],
      [main |-> None,       body |-> "notes v1"],
      [main |-> "notes v2", body |-> "nav notes v2"],
      [main |-> "",         body |-> "nav"],
      [main |-> None,       body |-> None] }

NoDocument == [main |-> Unset, body |-> Unset]
NotRead == [content |-> Unset, generation |-> 0]

\* soup.find('main') or soup.find('body'): a Tag is always truthy, so the
\* first element found wins; None when the document has neither.
main_content(doc) ==
    IF doc.main # None THEN doc.main ELSE doc.body

\* A digest that is empty for an empty text.
Sha256HexSkipsEmpty(text) ==
    IF text = "" THEN "" ELSE "1cca8feecd1a78cb52bc6df70c870068223a6f62fa3c51a435c00538254bc3d0"

\* hashlib.sha256(text.encode('utf-8')).hexdigest() on the texts the
\* documents above can yield.
Sha256Hex(text) ==
    CASE text = ""             -> "e3b0c44298fc1c149afbf4c8996fb92427ae41e4649b934ca495991b7852b855"
      [] text = "notes v1"     -> "1cca8feecd1a78cb52bc6df70c870068223a6f62fa3c51a435c00538254bc3d0"
      [] text = "notes v2"     -> "318e1abe5a49a8fc6577ea287cc2056814d4af6dddc69bc70fecce508ef2f5dc"
      [] text = "nav notes v1" -> "43c579fbdab2ba3a1896d6cfb6a2ddfe975696a41746b781eda080ca5ee501e8"
      [] text = "nav notes v2" -> "55e9c1813c1cfd299a6abebc3c1d92b914d069bf1b14c2b556842e7dbef7a33e"
      [] text = "nav"          -> "abca4de9dd94d3ac2db9c470f8d4557f421b969fab4990c3c719629f7e7a8b69"

\* The handler's return values: (body, status).
NoResponse      == [body |-> "", status |-> 0]
ErrorFetching   == [body |-> "Error fetching URL", status |-> 500]
NoChanges       == [body |-> "No changes detected.", status |-> 200]
ApiKeyMissing   == [body |-> "API key missing", status |-> 500]
ErrorGemini     == [body |-> "Error calling Gemini API", status |-> 500]
Processed       == [body |-> "Successfully processed updates.", status |-> 200]

VARIABLES
    model,                \* module global: the Gemini client, or None
    CHAT_WEBHOOK_URL,     \* module global
    blob,                 \* content of the object STATE_FILE_NAME; None = no object
    generation,           \* how many times the object has been uploaded
    pc,                   \* per invocation: where the handler stands
    document,             \* per invocation: the parsed response.content
    current_content_text, \* per invocation
    current_hash,         \* per invocation
    previous_hash,        \* per invocation
    response,             \* per invocation: what the handler returned
    trace,                \* per invocation: the outcome of each step, in order
                          \* (what the handler's print calls log)
    blobAtRead,           \* per invocation: the object (content, generation)
                          \* in the bucket when get_previous_hash ran
    served,               \* number of requests accepted so far
    everProcessed,        \* some invocation has returned Processed
    lastUnsummarized,     \* text of the latest finished invocation, when it saw
                          \* a hash differing from the blob and could not summarize
    retryOf               \* per invocation: lastUnsummarized when it was triggered

vars == <<model, CHAT_WEBHOOK_URL, blob, generation, pc, document, current_content_text,
          current_hash, previous_hash, response, trace, blobAtRead, served,
          everProcessed, lastUnsummarized, retryOf>>

globals == <<model, CHAT_WEBHOOK_URL>>

Has(i, e) == \E k \in DOMAIN trace[i] : trace[i][k] = e

Terminal(i) == pc[i] \in {"done", "raised"}

\* State after the module has been imported and no request has arrived.
Init ==
    /\ \E key \in ApiKeys :
          model = IF Truthy(key) THEN "GenerativeModel" ELSE None
    /\ CHAT_WEBHOOK_URL \in WebhookUrls
    /\ blob = None
    /\ generation = 0
    /\ pc = [i \in Invocations |-> "idle"]
    /\ document = [i \in Invocations |-> NoDocument]
    /\ current_content_text = [i \in Invocations |-> Unset]
    /\ current_hash = [i \in Invocations |-> Unset]
    /\ previous_hash = [i \in Invocations |-> Unset]
    /\ response = [i \in Invocations |-> NoResponse]
    /\ trace = [i \in Invocations |-> <<>>]
    /\ blobAtRead = [i \in Invocations |-> NotRead]
    /\ served = 0
    /\ everProcessed = FALSE
    /\ lastUnsummarized = None
    /\ retryOf = [i \in Invocations |-> None]

\* A POST / arrives and the handler starts with fresh locals.
Trigger(i) ==
    /\ pc[i] \in {"idle", "done", "raised"}
    /\ served < MaxInvocations
    /\ served' = served + 1
    /\ pc' = [pc EXCEPT ![i] = "fetch"]
    /\ document' = [document EXCEPT ![i] = NoDocument]
    /\ current_content_text' = [current_content_text EXCEPT ![i] = Unset]
    /\ current_hash' = [current_hash EXCEPT ![i] = Unset]
    /\ previous_hash' = [previous_hash EXCEPT ![i] = Unset]
    /\ response' = [response EXCEPT ![i] = NoResponse]
    /\ trace' = [trace EXCEPT ![i] = <<>>]
    /\ blobAtRead' = [blobAtRead EXCEPT ![i] = NotRead]
    /\ retryOf' = [retryOf EXCEPT ![i] = lastUnsummarized]
    /\ UNCHANGED <<globals, blob, generation, everProcessed, lastUnsummarized>>

\* The same, when the scheduler never overlaps two requests.
TriggerAlone(i) ==
    /\ \A j \in Invocations \ {i} : pc[j] \in {"idle", "done", "raised"}
    /\ Trigger(i)

\* What an invocation that ends leaves behind for the next one.
Unsummarized(i) ==
    IF blobAtRead[i] # NotRead /\ blobAtRead[i].content # current_hash[i]
    THEN current_content_text[i] ELSE None

\* A failed fetch that is logged but not returned from: the handler goes
\* on with an empty page.
FetchFailedIgnored(i) ==
    /\ trace' = [trace EXCEPT ![i] = Append(@, "fetch_fail")]
    /\ current_content_text' = [current_content_text EXCEPT ![i] = ""]
    /\ current_hash' = [current_hash EXCEPT ![i] = Sha256Hex("")]
    /\ pc' = [pc EXCEPT ![i] = "compare"]
    /\ UNCHANGED <<document, response, lastUnsummarized>>

\* Step 1, failure: requests.get or raise_for_status raised a
\* RequestException; the handler returns ErrorFetching.
FetchFailed(i) ==
    /\ trace' = [trace EXCEPT ![i] = Append(@, "fetch_fail")]
    /\ response' = [response EXCEPT ![i] = ErrorFetching]
    /\ pc' = [pc EXCEPT ![i] = "done"]
    /\ lastUnsummarized' = None
    /\ UNCHANGED <<document, current_content_text, current_hash>>

\* Step 2: parse the fetched document and hash its text.  When the
\* document has neither <main> nor <body>, main_content is None and
\* .get_text() raises AttributeError, which nothing in the handler catches.
ParseAndHash(i, doc) ==
    /\ document' = [document EXCEPT ![i] = doc]
    /\ IF main_content(doc) = None
       THEN /\ trace' = [trace EXCEPT ![i] = Append(@, "fetch_ok")]
            /\ pc' = [pc EXCEPT ![i] = "raised"]
            /\ lastUnsummarized' = None
            /\ UNCHANGED <<current_content_text, current_hash>>
       ELSE /\ trace' = [trace EXCEPT ![i] = Append(Append(@, "fetch_ok"), "hash")]
            /\ current_content_text' =
                   [current_content_text EXCEPT ![i] = main_content(doc)]
            /\ current_hash' =
                   [current_hash EXCEPT ![i] = Sha256Hex(main_content(doc))]
            /\ pc' = [pc EXCEPT ![i] = "compare"]
            /\ UNCHANGED lastUnsummarized
    /\ UNCHANGED response

\* Steps 1 and 2: the page is fetched; what follows the fetch up to the
\* read of the stored hash is local computation.
Fetch(i) ==
    /\ pc[i] = "fetch"
    /\ \/ FetchFailed(i)
       \/ \E doc \in Documents : ParseAndHash(i, doc)
    /\ UNCHANGED <<globals, blob, generation, previous_hash, blobAtRead, served,
                   everProcessed, retryOf>>

\* download_as_text raises when there is no object or the read fails.
DownloadRaises(stored, readOk) == stored = None \/ ~readOk

get_previous_hash(stored, readOk) ==
    IF DownloadRaises(stored, readOk) THEN None ELSE stored

\* A comparison that never finds the hashes equal.
NoChangeDetectedNever(current, previous) == FALSE

\* A comparison that also takes a missing previous hash for "no change".
NoChangeDetectedOrFirstRun(current, previous) ==
    previous = None \/ current = previous

\* current_hash == previous_hash (a hex digest never equals None).
NoChangeDetected(current, previous) == current = previous

\* Step 3: read the stored hash and compare.
Compare(i) ==
    /\ pc[i] = "compare"
    /\ \E readOk \in BOOLEAN :
          LET prev == get_previous_hash(blob, readOk) IN
          /\ previous_hash' = [previous_hash EXCEPT ![i] = prev]
          /\ blobAtRead' = [blobAtRead EXCEPT ![i] =
                               [content |-> blob, generation |-> generation]]
          /\ trace' = [trace EXCEPT ![i] =
                          Append(@, IF DownloadRaises(blob, readOk)
                                    THEN "read_fail" ELSE "read_ok")]
          /\ IF NoChangeDetected(current_hash[i], prev)
             THEN /\ response' = [response EXCEPT ![i] = NoChanges]
                  /\ pc' = [pc EXCEPT ![i] = "done"]
                  /\ lastUnsummarized' = None
             ELSE /\ pc' = [pc EXCEPT ![i] = "summarize"]
                  /\ UNCHANGED <<response, lastUnsummarized>>
    /\ UNCHANGED <<globals, blob, generation, document, current_content_text, current_hash,
                   served, everProcessed, retryOf>>

\* A failed model call that is logged but not returned from.
GenerateFailedIgnored(i) ==
    /\ trace' = [trace EXCEPT ![i] = Append(@, "generate_fail")]
    /\ pc' = [pc EXCEPT ![i] = "notify"]
    /\ UNCHANGED <<response, lastUnsummarized>>

\* Step 4, failure: model.generate_content (or reading .text) raised.
GenerateFailed(i) ==
    /\ trace' = [trace EXCEPT ![i] = Append(@, "generate_fail")]
    /\ response' = [response EXCEPT ![i] = ErrorGemini]
    /\ pc' = [pc EXCEPT ![i] = "done"]
    /\ lastUnsummarized' = Unsummarized(i)

\* A handler that stores the hash as soon as it has the summary.
GenerateSucceededThenPersist(i) ==
    /\ trace' = [trace EXCEPT ![i] = Append(@, "generate_ok")]
    /\ pc' = [pc EXCEPT ![i] = "persist"]
    /\ UNCHANGED <<response, lastUnsummarized>>

\* Step 4, success: the summary is there, the handler goes on to notify.
GenerateSucceeded(i) ==
    /\ trace' = [trace EXCEPT ![i] = Append(@, "generate_ok")]
    /\ pc' = [pc EXCEPT ![i] = "notify"]
    /\ UNCHANGED <<response, lastUnsummarized>>

\* Step 4: without a model the handler returns ApiKeyMissing and calls
\* nothing; otherwise it calls the model.
Summarize(i) ==
    /\ pc[i] = "summarize"
    /\ IF model = None
       THEN /\ trace' = [trace EXCEPT ![i] = Append(@, "no_model")]
            /\ response' = [response EXCEPT ![i] = ApiKeyMissing]
            /\ pc' = [pc EXCEPT ![i] = "done"]
            /\ lastUnsummarized' = Unsummarized(i)
       ELSE GenerateFailed(i) \/ GenerateSucceeded(i)
    /\ UNCHANGED <<globals, blob, generation, document, current_content_text,
                   current_hash, previous_hash, blobAtRead, served,
                   everProcessed, retryOf>>

\* A notifier that lets the failure of the POST escape.
send_to_google_chat_unguarded(i) ==
    /\ pc[i] = "notify"
    /\ IF ~Truthy(CHAT_WEBHOOK_URL)
       THEN /\ trace' = [trace EXCEPT ![i] = Append(@, "post_skipped")]
            /\ pc' = [pc EXCEPT ![i] = "persist"]
       ELSE \/ /\ trace' = [trace EXCEPT ![i] = Append(@, "post_ok")]
               /\ pc' = [pc EXCEPT ![i] = "persist"]
            \/ /\ trace' = [trace EXCEPT ![i] = Append(@, "post_fail")]
               /\ pc' = [pc EXCEPT ![i] = "raised"]
    /\ UNCHANGED <<globals, blob, generation, document, current_content_text,
                   current_hash, previous_hash, response, blobAtRead, served,
                   everProcessed, lastUnsummarized, retryOf>>

\* Step 5: send_to_google_chat returns normally whatever happens: without
\* a webhook URL it returns at once, and a failing POST (or a failing
\* raise_for_status) is caught and logged.
send_to_google_chat(i) ==
    /\ pc[i] = "notify"
    /\ IF ~Truthy(CHAT_WEBHOOK_URL)
       THEN trace' = [trace EXCEPT ![i] = Append(@, "post_skipped")]
       ELSE \/ trace' = [trace EXCEPT ![i] = Append(@, "post_ok")]
            \/ trace' = [trace EXCEPT ![i] = Append(@, "post_fail")]
    /\ pc' = [pc EXCEPT ![i] = "persist"]
    /\ UNCHANGED <<globals, blob, generation, document, current_content_text,
                   current_hash, previous_hash, response, blobAtRead, served,
                   everProcessed, lastUnsummarized, retryOf>>

\* A set_new_hash that catches the failure of the upload and logs it.
set_new_hash_guarded(i) ==
    /\ pc[i] = "persist"
    /\ \/ /\ blob' = current_hash[i]
          /\ generation' = generation + 1
          /\ trace' = [trace EXCEPT ![i] = Append(@, "write_ok")]
       \/ /\ trace' = [trace EXCEPT ![i] = Append(@, "write_fail")]
          /\ UNCHANGED <<blob, generation>>
    /\ response' = [response EXCEPT ![i] = Processed]
    /\ pc' = [pc EXCEPT ![i] = "done"]
    /\ everProcessed' = TRUE
    /\ lastUnsummarized' = None
    /\ UNCHANGED <<globals, document, current_content_text, current_hash,
                   previous_hash, blobAtRead, served, retryOf>>

\* A set_new_hash that uploads the page text instead of its hash.
set_new_hash_of_text(i) ==
    /\ pc[i] = "persist"
    /\ \/ /\ blob' = current_content_text[i]
          /\ generation' = generation + 1
          /\ trace' = [trace EXCEPT ![i] = Append(@, "write_ok")]
          /\ response' = [response EXCEPT ![i] = Processed]
          /\ pc' = [pc EXCEPT ![i] = "done"]
          /\ everProcessed' = TRUE
       \/ /\ trace' = [trace EXCEPT ![i] = Append(@, "write_fail")]
          /\ pc' = [pc EXCEPT ![i] = "raised"]
          /\ UNCHANGED <<blob, generation, response, everProcessed>>
    /\ lastUnsummarized' = None
    /\ UNCHANGED <<globals, document, current_content_text, current_hash,
                   previous_hash, blobAtRead, served, retryOf>>

\* Step 6: set_new_hash overwrites the object with current_hash, then the
\* handler returns Processed.  upload_from_string encodes the hex digest as
\* UTF-8 and download_as_text decodes it, so a later read gives back the
\* very string written.  upload_from_string is not guarded: when it raises,
\* the object is left as it was and the exception leaves the handler.
set_new_hash(i) ==
    /\ pc[i] = "persist"
    /\ \/ /\ blob' = current_hash[i]
          /\ generation' = generation + 1
          /\ trace' = [trace EXCEPT ![i] = Append(@, "write_ok")]
          /\ response' = [response EXCEPT ![i] = Processed]
          /\ pc' = [pc EXCEPT ![i] = "done"]
          /\ everProcessed' = TRUE
       \/ /\ trace' = [trace EXCEPT ![i] = Append(@, "write_fail")]
          /\ pc' = [pc EXCEPT ![i] = "raised"]
          /\ UNCHANGED <<blob, generation, response, everProcessed>>
    /\ lastUnsummarized' = None
    /\ UNCHANGED <<globals, document, current_content_text, current_hash,
                   previous_hash, blobAtRead, served, retryOf>>

\* One step of the handler after it has been triggered.
process_release_notes(i) ==
    \/ Fetch(i)
    \/ Compare(i)
    \/ Summarize(i)
    \/ send_to_google_chat(i)
    \/ set_new_hash(i)

\* Requests may overlap: nothing serialises the invocations.
Next == \E i \in Invocations : Trigger(i) \/ process_release_notes(i)

Spec == Init /\ [][Next]_vars

\* Requests arrive one after the other (a scheduler that never overlaps).
SeqNext == \E i \in Invocations : TriggerAlone(i) \/ process_release_notes(i)

SeqSpec == Init /\ [][SeqNext]_vars

Texts == {doc.main : doc \in Documents} \cup {doc.body : doc \in Documents}
Hashes == {Sha256Hex(t) : t \in Texts \ {None}}

TypeOK ==
    /\ model \in {None, "GenerativeModel"}
    /\ CHAT_WEBHOOK_URL \in WebhookUrls
    /\ blob \in Hashes \cup {None}
    /\ generation \in 0..MaxInvocations
    /\ served \in 0..MaxInvocations
    /\ everProcessed \in BOOLEAN
    /\ lastUnsummarized \in Texts
    /\ \A i \in Invocations :
          /\ pc[i] \in {"idle", "fetch", "compare", "summarize", "notify",
                        "persist", "done", "raised"}
          /\ document[i] \in Documents \cup {NoDocument}
          /\ current_content_text[i] \in (Texts \ {None}) \cup {Unset}
          /\ current_hash[i] \in Hashes \cup {Unset}
          /\ previous_hash[i] \in Hashes \cup {None, Unset}
          /\ response[i] \in {NoResponse, ErrorFetching, NoChanges,
                               ApiKeyMissing, ErrorGemini, Processed}
          /\ Len(trace[i]) <= 6
          /\ retryOf[i] \in Texts

(***************************************************************************)
(* Properties                                                              *)
(***************************************************************************)

Summarized(i) == Has(i, "generate_ok") \/ Has(i, "generate_fail")
Notified(i)   == Has(i, "post_ok") \/ Has(i, "post_fail")
WriteTried(i) == Has(i, "write_ok") \/ Has(i, "write_fail")
ReadTried(i)  == Has(i, "read_ok") \/ Has(i, "read_fail")

\* The invocation has returned NoChanges having called neither the model
\* nor the webhook and having written nothing.
Quiet(i) ==
    /\ pc[i] = "done"
    /\ response[i] = NoChanges
    /\ ~Summarized(i) /\ ~Notified(i) /\ ~WriteTried(i)

\* C1 as stated: whenever the fetch succeeded and the hash in the store
\* equals the computed hash, the invocation summarizes nothing, notifies
\* nobody, writes nothing and answers 200 "No changes detected.".
C1_StoredHashEqual ==
    \A i \in Invocations :
        (blobAtRead[i] # NotRead /\ blobAtRead[i].content = current_hash[i])
            => /\ ~Summarized(i) /\ ~Notified(i) /\ ~WriteTried(i)
               /\ Terminal(i) => response[i] = NoChanges

\* C1 amended: whenever the fetch succeeded and get_previous_hash returned
\* a hash equal to the computed one (the read of the store did not fail),
\* the invocation summarizes nothing, notifies nobody, writes nothing and
\* answers 200 "No changes detected.".
C1_ReadHashEqual ==
    \A i \in Invocations :
        (previous_hash[i] # Unset /\ previous_hash[i] = current_hash[i])
            => Quiet(i) /\ trace[i] = <<"fetch_ok", "hash", "read_ok">>

C1_Witness ==
    \E i \in Invocations :
        /\ Has(i, "read_ok")
        /\ previous_hash[i] = current_hash[i]
        /\ response[i] = NoChanges

\* C2: an invocation whose fetch fails answers 500 "Error fetching URL",
\* never reads or writes the stored hash, calls neither the model nor the
\* webhook, and its step leaves the stored hash as it was.
C2_FetchFailure ==
    /\ [](\A i \in Invocations :
            Has(i, "fetch_fail") =>
                /\ trace[i] = <<"fetch_fail">>
                /\ pc[i] = "done"
                /\ response[i] = ErrorFetching
                /\ previous_hash[i] = Unset
                /\ blobAtRead[i] = NotRead)
    /\ [][\A i \in Invocations :
            (pc[i] = "fetch" /\ Has(i, "fetch_fail")')
                => (blob' = blob /\ generation' = generation)]_vars

C2_Witness ==
    \E i \in Invocations :
        /\ Has(i, "fetch_fail")
        /\ response[i] = ErrorFetching
        /\ blob # None

\* The invocation went from COMPARE on to SUMMARIZE.
ChangeDetected(i) ==
    \/ pc[i] \in {"summarize", "notify", "persist"}
    \/ Has(i, "no_model") \/ Summarized(i)

\* C3: when a change is detected and the summary cannot be made, the
\* invocation ends with status 500 without notifying and without writing,
\* the stored hash is what it was, and the next invocation that fetches
\* the same text detects the change again; the body is "API key missing"
\* when no model is configured (no model call is made) and
\* "Error calling Gemini API" when the model call raises.
C3_SummarizeFailure ==
    /\ [](\A i \in Invocations :
            /\ (Has(i, "no_model") \/ Has(i, "generate_fail")) =>
                  /\ pc[i] = "done"
                  /\ response[i].status = 500
                  /\ ~Notified(i) /\ ~Has(i, "post_skipped")
                  /\ ~WriteTried(i)
            /\ Has(i, "no_model") =>
                  (model = None /\ response[i] = ApiKeyMissing /\ ~Summarized(i))
            /\ Has(i, "generate_fail") =>
                  (model # None /\ response[i] = ErrorGemini)
            /\ (ReadTried(i) /\ retryOf[i] # None
                    /\ current_content_text[i] = retryOf[i]) =>
                  (ChangeDetected(i) /\ response[i] # NoChanges))
    /\ [][\A i \in Invocations :
            (pc[i] = "summarize" /\ pc'[i] = "done") =>
                /\ blob' = blob
                /\ blob' = blobAtRead[i].content
                /\ generation' = blobAtRead[i].generation]_vars

C3_Witness ==
    \E i \in Invocations :
        /\ retryOf[i] # None
        /\ current_content_text[i] = retryOf[i]
        /\ Has(i, "generate_fail")
        /\ blob # None

C5_AbsentMeansChanged ==
    \A i \in Invocations :
        /\ (blobAtRead[i] # NotRead /\ blobAtRead[i].content = None)
              => Has(i, "read_fail")
        /\ Has(i, "read_fail") =>
              /\ previous_hash[i] = None
              /\ ChangeDetected(i)
              /\ response[i] # NoChanges
              /\ pc[i] = "raised" => Has(i, "write_fail")

C5_Witness ==
    \E i, j \in Invocations :
        /\ Has(i, "read_fail") /\ blobAtRead[i].content = None
        /\ Has(i, "generate_ok")
        /\ Has(j, "read_fail") /\ blobAtRead[j].content = current_hash[j]
        /\ Summarized(j)

FixedResponses ==
    {ErrorFetching, NoChanges, ApiKeyMissing, ErrorGemini, Processed}

C7_DuplicateWritesAgree ==
    \A i, j \in Invocations :
        (/\ i # j
         /\ Has(i, "write_ok") /\ Has(j, "write_ok")
         /\ current_content_text[i] = current_content_text[j])
            => /\ current_hash[i] = current_hash[j]
               /\ blob = Sha256Hex(current_content_text[i])

\* Both invocations read the same generation of the object (so each read
\* before the other wrote), and both summarized, notified and wrote.
C7_Witness ==
    \E i, j \in Invocations :
        /\ i # j
        /\ Has(i, "read_ok") /\ Has(j, "read_ok")
        /\ blobAtRead[i] = blobAtRead[j]
        /\ previous_hash[i] = previous_hash[j]
        /\ current_content_text[i] = current_content_text[j]
        /\ Has(i, "generate_ok") /\ Has(j, "generate_ok")
        /\ Has(i, "post_ok") /\ Has(j, "post_ok")
        /\ Has(i, "write_ok") /\ Has(j, "write_ok")
        /\ generation = blobAtRead[i].generation + 2
        /\ blob = current_hash[i]

\* Position of event e in the trace of invocation i (0 when absent).
Pos(i, e) ==
    IF Has(i, e) THEN CHOOSE k \in DOMAIN trace[i] : trace[i][k] = e ELSE 0

Count(i, events) == Cardinality({k \in DOMAIN trace[i] : trace[i][k] \in events})

ReadPos(i)   == Pos(i, "read_ok") + Pos(i, "read_fail")
NotifyPos(i) == Pos(i, "post_ok") + Pos(i, "post_fail") + Pos(i, "post_skipped")
WritePos(i)  == Pos(i, "write_ok") + Pos(i, "write_fail")

\* C8: in one invocation no step is repeated; the store is read at most
\* once and only after a successful fetch; it is written at most once, and
\* only after the read gave an absent or differing hash, after a successful
\* summary and after the notification step has returned; what is written
\* is exactly the hash computed in this invocation, replacing the object.
C8_StepOrder ==
    /\ [](\A i \in Invocations :
            /\ \A k, l \in DOMAIN trace[i] : trace[i][k] = trace[i][l] => k = l
            /\ Count(i, {"read_ok", "read_fail"}) <= 1
            /\ Count(i, {"write_ok", "write_fail"}) <= 1
            /\ ReadTried(i) =>
                  (Pos(i, "fetch_ok") > 0 /\ Pos(i, "fetch_ok") < ReadPos(i))
            /\ WriteTried(i) =>
                  /\ ReadTried(i)
                  /\ previous_hash[i] # current_hash[i]
                  /\ ReadPos(i) < Pos(i, "generate_ok")
                  /\ Pos(i, "generate_ok") < NotifyPos(i)
                  /\ NotifyPos(i) < WritePos(i)
                  /\ WritePos(i) = Len(trace[i]))
    /\ [][\A i \in Invocations :
            (~Has(i, "write_ok") /\ Has(i, "write_ok")') =>
                /\ blob' = current_hash[i]
                /\ blob' = Sha256Hex(current_content_text[i])
                /\ generation' = generation + 1]_vars
    /\ [][blob' # blob =>
            \E i \in Invocations : ~Has(i, "write_ok") /\ Has(i, "write_ok")']_vars

C8_Witness ==
    \E i \in Invocations :
        /\ Has(i, "read_ok")
        /\ Has(i, "write_ok")
        /\ blobAtRead[i].content # None
        /\ blob = current_hash[i]

\* C9: the store is empty exactly until an invocation has detected a
\* change and answered "Successfully processed updates."; from then on it
\* holds a non-empty hash, and no step removes or empties it.
C9_StoreStaysFilled ==
    /\ [](blob = None <=> ~everProcessed)
    /\ [](blob # "")
    /\ [](\A i \in Invocations : response[i] = Processed => blob # None)
    /\ [][blob # None => (blob' # None /\ blob' # "")]_vars

C9_Witness ==
    /\ everProcessed
    /\ blob = Sha256Hex("")
    /\ \E i \in Invocations : pc[i] = "raised" /\ Has(i, "write_fail")

\* C10: after a successful fetch the text is extracted and hashed for every
\* document, from the main-content element when there is one and from the
\* body otherwise, and the invocation reaches COMPARE with its hash.
C10_HashAlwaysSucceeds ==
    \A i \in Invocations :
        Has(i, "fetch_ok") =>
            /\ Has(i, "hash")
            /\ current_hash[i] # Unset
            /\ current_content_text[i] =
                  (IF document[i].main # None THEN document[i].main
                                              ELSE document[i].body)
            /\ (pc[i] = "compare" \/ ReadTried(i))

====
